---- MODULE Spec2Model ----
(***************************************************************************)
(* scalar_imprinted.py: split-step evolution of a scalar BEC with periodic *)
(* snapshots (data file) and a single-slot restart record (backup file).   *)
(*                                                                         *)
(* The script is one process run from top to bottom.  pc is the statement  *)
(* the process is at; the two HDF5 files are the state that survives the   *)
(* process.  The process can be terminated from outside at any statement   *)
(* and started again as a continued run (fresh_simulation = False).        *)
(*                                                                         *)
(* Abstractions:                                                           *)
(*   - a wavefunction array is represented by what has been applied to the *)
(*     relaxed initial state: n whole real-time steps, then the part of    *)
(*     the next step applied so far, and the space it lives in;            *)
(*   - time is counted in ticks of dt, with inv_dt ticks per unit of time  *)
(*     (dt = 1/inv_dt; floating-point rounding error is not modelled);     *)
(*   - the imaginary-time relaxation (lines 75-98) only fixes the initial  *)
(*     state and is folded into FreshInit;                                 *)
(*   - a statement that writes a file takes effect on disk as a whole;     *)
(*   - a terminated simulation is only ever continued, never started       *)
(*     afresh over the same files, and its parameters are left as they are;*)
(*   - the truncation of stored arrays to complex64 is not modelled.       *)
(***************************************************************************)
EXTENDS Integers, Sequences, FiniteSets

\* ---------------------------------------------------------------- bounds
\* Largest number of real-time steps per run (Nt, line 32).
MaxNt == 7
\* Largest snapshot interval (Nframe, line 33); 0 is included as an invalid one.
MaxNframe == 3
\* Largest number of ticks per unit of time (1/dt, line 34).
MaxInvDt == 3
\* The backup interval: the literal 50000 of line 146, scaled down.
BackupEvery == 3
\* Largest number of external terminations.
MaxKills == 2

VARIABLES
    Nt,                 \* line 32
    Nframe,             \* line 33
    inv_dt,             \* 1/dt, line 34
    fresh_simulation,   \* line 42
    pc,                 \* the statement the process is at
    i,                  \* loop index of line 120 (-1 before the loop)
    t,                  \* elapsed time, in ticks of dt (lines 35, 51, 156)
    k,                  \* array index (lines 36, 52, 143)
    psi_k,              \* spectral wavefunction
    psi,                \* real-space wavefunction
    data,               \* the file at data_path: dataset wavefunction/psi
    backup,             \* the file at backup_data_path
    kills,              \* external terminations so far
    writes,             \* history: slice indices written by this process
    ops                 \* history: operations of the current loop iteration

vars == <<Nt, Nframe, inv_dt, fresh_simulation, pc, i, t, k, psi_k, psi,
          data, backup, kills, writes, ops>>

\* ------------------------------------------------------------ array values
\* An array nobody has assigned yet.
Undef == [n |-> 0, part |-> "undef", rep |-> "none"]
\* A slice of the dataset that resize or create_dataset made and nobody wrote.
Fill == [n |-> 0, part |-> "zeros", rep |-> "x"]
Bad == [n |-> 0, part |-> "bad", rep |-> "none"]

\* The relaxed initial state in spectral space (psi_k after line 98).
InitialState == [n |-> 0, part |-> "", rep |-> "k"]

\* psi_k *= exp(-0.25j * dt * (Kx**2 + Ky**2)): a kinetic half-step.
Kinetic(v) ==
    IF v.rep # "k" THEN Bad
    ELSE IF v.part = "" THEN [v EXCEPT !.part = "K"]
    ELSE IF v.part = "KI" THEN [n |-> v.n + 1, part |-> "", rep |-> "k"]
    ELSE Bad

\* psi *= exp(-1j * dt * c0 * |psi|**2): the interaction step.
Interaction(v) ==
    IF v.rep = "x" /\ v.part = "K" THEN [v EXCEPT !.part = "KI"] ELSE Bad

\* cp.fft.ifft2: spectral to real space.
ifft2(v) == IF v.rep = "k" THEN [v EXCEPT !.rep = "x"] ELSE Bad

\* cp.fft.fft2: real to spectral space.
fft2(v) == IF v.rep = "x" THEN [v EXCEPT !.rep = "k"] ELSE Bad

\* np.mod on integers: a zero divisor gives 0 (with a warning), no exception.
NpMod(a, b) == IF b = 0 THEN 0 ELSE a % b

\* np.round mutated: the stored time is taken as it is.
NpRoundOmitted(x, den) == x

\* np.round of a time of x ticks, in ticks: the nearest whole number of time
\* units, a tie going to the even one.
NpRound(x, den) ==
    LET q == x \div den
        r == x % den
    IN  IF 2 * r < den THEN q * den
        ELSE IF 2 * r > den THEN (q + 1) * den
        ELSE IF q % 2 = 0 THEN q * den
        ELSE (q + 1) * den

\* Dataset.resize on the trailing axis: cut, or extend with unwritten slices.
Resize(s, len) ==
    [j \in 1..len |-> IF j <= Len(s) THEN s[j] ELSE Fill]

NoFile == [exists |-> FALSE, psi |-> <<>>]
NoBackup == [exists |-> FALSE, has |-> {}, time |-> 0, psi_k |-> Undef,
             array_index |-> 0]
BackupFields == {"time", "psi_k", "array_index"}

\* ------------------------------------------------------------------- Init
Configs ==
    /\ Nt \in 0..MaxNt
    /\ Nframe \in 0..MaxNframe
    /\ inv_dt \in 1..MaxInvDt

Memory0 ==
    /\ pc = "start"
    /\ i = -1
    /\ t = 0
    /\ k = 0
    /\ psi_k = Undef
    /\ psi = Undef
    /\ writes = <<>>
    /\ ops = <<>>

Init ==
    /\ Configs
    /\ fresh_simulation \in BOOLEAN
    /\ Memory0
    /\ data = NoFile
    /\ backup = NoBackup
    /\ kills = 0


\* ----------------------------------------------------- start of the process
\* Lines 55-115: the fresh branch.  Builds and relaxes the initial state and
\* creates the data file (mode 'w') with wavefunction/psi of shape (Nx, Ny, 1).
FreshInit ==
    /\ pc = "start"
    /\ fresh_simulation
    /\ psi_k' = InitialState
    /\ psi' = ifft2(InitialState)
    /\ data' = [exists |-> TRUE, psi |-> <<Fill>>]
    /\ pc' = "initialised"
    /\ UNCHANGED <<Nt, Nframe, inv_dt, fresh_simulation, i, t, k, backup,
                   kills, writes, ops>>

\* Lines 48-53: the continued branch.  h5py.File(.., 'r') raises when the file
\* is missing, previous_data[name] raises when a dataset is missing.
RestoreFails == ~backup.exists \/ backup.has # BackupFields

Restore ==
    /\ pc = "start"
    /\ ~fresh_simulation
    /\ IF RestoreFails
       THEN /\ pc' = "error"
            /\ UNCHANGED <<psi_k, t, k>>
       ELSE /\ psi_k' = backup.psi_k
            /\ t' = NpRound(backup.time, inv_dt)
            /\ k' = backup.array_index
            /\ pc' = "restored"
    /\ UNCHANGED <<Nt, Nframe, inv_dt, fresh_simulation, i, psi, data, backup,
                   kills, writes, ops>>

\* ------------------------------------------------------ real-time evolution
\* range(Nt) mutated: one iteration too many.
LoopContinuesInclusive(idx) == idx <= Nt

\* Line 120: range(Nt) yields idx.
LoopContinues(idx) == idx < Nt

\* Line 120: for i in range(Nt).
ForHeader ==
    /\ pc \in {"initialised", "restored", "for"}
    /\ IF LoopContinues(i + 1)
       THEN /\ i' = i + 1
            /\ pc' = "kin1"
       ELSE /\ pc' = "done"
            /\ UNCHANGED i
    /\ ops' = <<>>
    /\ UNCHANGED <<Nt, Nframe, inv_dt, fresh_simulation, t, k, psi_k, psi,
                   data, backup, kills, writes>>

\* Line 123.
Kinetic1 ==
    /\ pc = "kin1"
    /\ psi_k' = Kinetic(psi_k)
    /\ ops' = Append(ops, "K")
    /\ pc' = "ifft"
    /\ UNCHANGED <<Nt, Nframe, inv_dt, fresh_simulation, i, t, k, psi, data,
                   backup, kills, writes>>

\* Line 126.
BackwardFFT ==
    /\ pc = "ifft"
    /\ psi' = ifft2(psi_k)
    /\ ops' = Append(ops, "IFFT")
    /\ pc' = "inter"
    /\ UNCHANGED <<Nt, Nframe, inv_dt, fresh_simulation, i, t, k, psi_k, data,
                   backup, kills, writes>>

\* Line 129.
InteractionTerm ==
    /\ pc = "inter"
    /\ psi' = Interaction(psi)
    /\ ops' = Append(ops, "INT")
    /\ pc' = "fft"
    /\ UNCHANGED <<Nt, Nframe, inv_dt, fresh_simulation, i, t, k, psi_k, data,
                   backup, kills, writes>>

\* Line 132.
ForwardFFT ==
    /\ pc = "fft"
    /\ psi_k' = fft2(psi)
    /\ ops' = Append(ops, "FFT")
    /\ pc' = "kin2"
    /\ UNCHANGED <<Nt, Nframe, inv_dt, fresh_simulation, i, t, k, psi, data,
                   backup, kills, writes>>

\* Line 135.
Kinetic2 ==
    /\ pc = "kin2"
    /\ psi_k' = Kinetic(psi_k)
    /\ ops' = Append(ops, "K")
    /\ pc' = "save_if"
    /\ UNCHANGED <<Nt, Nframe, inv_dt, fresh_simulation, i, t, k, psi, data,
                   backup, kills, writes>>

\* Line 138: if np.mod(i + 1, Nframe) == 0.
SaveIf ==
    /\ pc = "save_if"
    /\ pc' = IF NpMod(i + 1, Nframe) = 0 THEN "resize" ELSE "backup_if"
    /\ UNCHANGED <<Nt, Nframe, inv_dt, fresh_simulation, i, t, k, psi_k, psi,
                   data, backup, kills, writes, ops>>

\* Lines 139-141: new_psi.resize((Nx, Ny, k + 1)).
SnapshotResize ==
    /\ pc = "resize"
    /\ data.exists
    /\ data' = [data EXCEPT !.psi = Resize(data.psi, k + 1)]
    /\ pc' = "write"
    /\ UNCHANGED <<Nt, Nframe, inv_dt, fresh_simulation, i, t, k, psi_k, psi,
                   backup, kills, writes, ops>>

\* The snapshot mutated: the real-space array of line 129 is stored.
SnapshotValueStale == psi

\* Line 142: the right-hand side, cp.asnumpy(cp.fft.ifft2(psi_k)).
SnapshotValue == ifft2(psi_k)

\* Line 142: new_psi[:, :, k] = ...
SnapshotWrite ==
    /\ pc = "write"
    /\ data' = [data EXCEPT !.psi[k + 1] = SnapshotValue]
    /\ writes' = Append(writes, k)
    /\ ops' = Append(ops, "SNAP")
    /\ pc' = "kinc"
    /\ UNCHANGED <<Nt, Nframe, inv_dt, fresh_simulation, i, t, k, psi_k, psi,
                   backup, kills>>

\* Line 143: k += 1.
SnapshotCount ==
    /\ pc = "kinc"
    /\ k' = k + 1
    /\ pc' = "backup_if"
    /\ UNCHANGED <<Nt, Nframe, inv_dt, fresh_simulation, i, t, psi_k, psi,
                   data, backup, kills, writes, ops>>

\* The backup condition mutated: i in place of i + 1.
BackupDueOnIndex(idx) == NpMod(idx, BackupEvery) = 0

\* Line 146: np.mod(i + 1, 50000) == 0.
BackupDue(idx) == NpMod(idx + 1, BackupEvery) = 0

\* Line 146.
BackupIf ==
    /\ pc = "backup_if"
    /\ pc' = IF BackupDue(i) THEN "b_open" ELSE "print"
    /\ UNCHANGED <<Nt, Nframe, inv_dt, fresh_simulation, i, t, k, psi_k, psi,
                   data, backup, kills, writes, ops>>

\* Line 147: h5py.File(backup_data_path, 'w') truncates the file.
BackupOpen ==
    /\ pc = "b_open"
    /\ backup' = [NoBackup EXCEPT !.exists = TRUE]
    /\ ops' = Append(ops, "CKPT")
    /\ pc' = "b_time"
    /\ UNCHANGED <<Nt, Nframe, inv_dt, fresh_simulation, i, t, k, psi_k, psi,
                   data, kills, writes>>

\* Line 148.
BackupTime ==
    /\ pc = "b_time"
    /\ backup' = [backup EXCEPT !.time = t, !.has = @ \cup {"time"}]
    /\ pc' = "b_psi"
    /\ UNCHANGED <<Nt, Nframe, inv_dt, fresh_simulation, i, t, k, psi_k, psi,
                   data, kills, writes, ops>>

\* Line 149.
BackupPsi ==
    /\ pc = "b_psi"
    /\ backup' = [backup EXCEPT !.psi_k = psi_k, !.has = @ \cup {"psi_k"}]
    /\ pc' = "b_idx"
    /\ UNCHANGED <<Nt, Nframe, inv_dt, fresh_simulation, i, t, k, psi_k, psi,
                   data, kills, writes, ops>>

\* Line 150, and the end of the with block.
BackupIndex ==
    /\ pc = "b_idx"
    /\ backup' = [backup EXCEPT !.array_index = k,
                                !.has = @ \cup {"array_index"}]
    /\ pc' = "print"
    /\ UNCHANGED <<Nt, Nframe, inv_dt, fresh_simulation, i, t, k, psi_k, psi,
                   data, kills, writes, ops>>

\* Lines 153-156: the progress line (no state) and t += dt.
AdvanceTime ==
    /\ pc = "print"
    /\ t' = t + 1
    /\ ops' = Append(ops, "T")
    /\ pc' = "for"
    /\ UNCHANGED <<Nt, Nframe, inv_dt, fresh_simulation, i, k, psi_k, psi,
                   data, backup, kills, writes>>

\* ------------------------------------------------------------ environment
LoopPcs == {"for", "kin1", "ifft", "inter", "fft", "kin2", "save_if",
            "resize", "write", "kinc", "backup_if", "b_open", "b_time",
            "b_psi", "b_idx", "print"}
Running == pc \in LoopPcs \cup {"start", "initialised", "restored"}

\* The process is terminated from outside: its memory is gone, the files stay.
Kill ==
    /\ Running
    /\ kills < MaxKills
    /\ kills' = kills + 1
    /\ pc' = "killed"
    /\ i' = -1
    /\ t' = 0
    /\ k' = 0
    /\ psi_k' = Undef
    /\ psi' = Undef
    /\ writes' = <<>>
    /\ ops' = <<>>
    /\ UNCHANGED <<Nt, Nframe, inv_dt, fresh_simulation, data, backup>>

\* The script is started again with fresh_simulation = False (line 42 edited);
\* lines 35-36 set t and k.
Restart ==
    /\ pc = "killed"
    /\ fresh_simulation' = FALSE
    /\ pc' = "start"
    /\ UNCHANGED <<Nt, Nframe, inv_dt, i, t, k, psi_k, psi, data, backup,
                   kills, writes, ops>>

Step ==
    \/ FreshInit
    \/ Restore
    \/ ForHeader
    \/ Kinetic1
    \/ BackwardFFT
    \/ InteractionTerm
    \/ ForwardFFT
    \/ Kinetic2
    \/ SaveIf
    \/ SnapshotResize
    \/ SnapshotWrite
    \/ SnapshotCount
    \/ BackupIf
    \/ BackupOpen
    \/ BackupTime
    \/ BackupPsi
    \/ BackupIndex
    \/ AdvanceTime

Next == Step \/ Kill \/ Restart

Spec == Init /\ [][Next]_vars

\* A fresh run with a valid configuration that nobody terminates: the process
\* always takes its next statement.
FreshRunInit ==
    /\ Init
    /\ fresh_simulation
    /\ Nframe >= 1

FreshRunNext ==
    \/ FreshInit
    \/ ForHeader
    \/ Kinetic1
    \/ BackwardFFT
    \/ InteractionTerm
    \/ ForwardFFT
    \/ Kinetic2
    \/ SaveIf
    \/ SnapshotResize
    \/ SnapshotWrite
    \/ SnapshotCount
    \/ BackupIf
    \/ BackupOpen
    \/ BackupTime
    \/ BackupPsi
    \/ BackupIndex
    \/ AdvanceTime

FreshRunSpec == FreshRunInit /\ [][FreshRunNext]_vars /\ WF_vars(FreshRunNext)


\* ------------------------------------------------------------- properties
BackupComplete == backup.exists /\ backup.has = BackupFields

\* The wavefunction after m whole real-time steps.
AfterSteps(m, space) == [n |-> m, part |-> "", rep |-> space]

Abs(x) == IF x < 0 THEN -x ELSE x

\* Statements of an iteration that follow its second kinetic half-step.
AfterKinetic2 == {"save_if", "resize", "write", "kinc", "backup_if", "b_open",
                  "b_time", "b_psi", "b_idx", "print"}

\* Loop iterations finished so far, counted from the start of the simulation.
StepsFinished == IF pc \in AfterKinetic2 THEN psi_k.n - 1 ELSE psi_k.n

\* The process is in, or about to enter, the evolution loop.
Evolving == pc \in LoopPcs \cup {"initialised", "restored"}

\* The backup file is open for writing (lines 148-150).
MidBackupPcs == {"b_time", "b_psi", "b_idx"}
MidBackup == pc \in MidBackupPcs

\* C1: a continued run that runs to completion ends in the state of a fresh run
\* that was never interrupted: Nt steps applied, elapsed time Nt*dt, and
\* k = floor(Nt/Nframe).
C1_ContinuationEqualsUninterrupted ==
    (pc = "done" /\ Nframe >= 1) =>
        /\ psi_k = AfterSteps(Nt, "k")
        /\ t = Nt
        /\ k = Nt \div Nframe

\* C2: wavefunction/psi is append-only: its trailing length never decreases and
\* a slice that was written is never removed or overwritten.
C2_TrajectoryAppendOnly ==
    [][/\ Len(data'.psi) >= Len(data.psi)
       /\ \A j \in 1..Len(data.psi) :
              data.psi[j] # Fill => data'.psi[j] = data.psi[j]]_vars

\* C3 as stated: the restore yields exactly the serialised time and index.
C3_RestoreExact ==
    pc = "restored" => (t = backup.time /\ k = backup.array_index)

\* C3 as amended: the restore yields exactly the serialised index, and the
\* serialised time rounded to the nearest whole number (a tie to the even one).
C3_RestoreRoundsTime ==
    pc = "restored" =>
        /\ k = backup.array_index
        /\ t % inv_dt = 0
        /\ 2 * Abs(t - backup.time) <= inv_dt
        /\ (2 * Abs(t - backup.time) = inv_dt => (t \div inv_dt) % 2 = 0)

\* A continued run has restored a record whose time is not a whole number.
C3_Witness == pc = "restored" /\ backup.time % inv_dt # 0

\* C4: every checkpoint record is self-consistent: its wavefunction is the
\* state after n whole steps, its time is n*dt, and its array_index is the
\* number of snapshots of those n steps.
C4_CheckpointSelfConsistent ==
    BackupComplete =>
        /\ backup.psi_k.part = ""
        /\ backup.psi_k.rep = "k"
        /\ backup.time = backup.psi_k.n
        /\ (Nframe >= 1 => backup.array_index = backup.psi_k.n \div Nframe)

\* C5: a fresh run terminates after exactly Nt steps, with t = Nt*dt and
\* exactly floor(Nt/Nframe) snapshot writes, at indices 0, 1, .. in order.
C5_FreshRunCompletes ==
    /\ <>(pc = "done")
    /\ [](pc = "done" =>
            /\ psi_k = AfterSteps(Nt, "k")
            /\ i = Nt - 1
            /\ t = Nt
            /\ Len(writes) = Nt \div Nframe
            /\ \A j \in 1..Len(writes) : writes[j] = j - 1)

\* A fresh run has ended whose Nframe does not divide Nt, after two snapshots.
C5_Witness == pc = "done" /\ Nt % Nframe # 0 /\ Len(writes) >= 2

\* C6: in a fresh run the trailing length of wavefunction/psi equals the
\* snapshot counter k, also before the first snapshot (the statements between
\* the resize and k += 1 aside).
C6_LengthEqualsCounter ==
    (/\ fresh_simulation
     /\ pc \in (LoopPcs \cup {"initialised", "done"}) \ {"write", "kinc"}) =>
        Len(data.psi) = k

\* C7, the record on disk: a complete record is at most BackupEvery steps
\* behind, and there is none only while fewer than BackupEvery steps are done.
BoundedLoss ==
    IF BackupComplete
    THEN /\ backup.psi_k.part = ""
         /\ backup.psi_k.n <= psi_k.n
         /\ StepsFinished - backup.psi_k.n <= BackupEvery
    ELSE StepsFinished < BackupEvery

\* C7, when a record is written: at the positive multiples of BackupEvery
\* steps and never otherwise.
BackupExactlyWhenDue ==
    /\ (pc \in MidBackupPcs \cup {"b_open"}) =>
           (psi_k.n > 0 /\ psi_k.n % BackupEvery = 0)
    /\ BackupComplete =>
           (backup.psi_k.n > 0 /\ backup.psi_k.n % BackupEvery = 0)
    /\ (pc = "print" /\ psi_k.n % BackupEvery = 0) =>
           (BackupComplete /\ backup.psi_k = psi_k)
    /\ Nt < BackupEvery => ~backup.exists

C8_StartupErrorsAbort ==
    /\ Nframe = 0 => (i = -1 /\ writes = <<>>)
    /\ pc = "error" => (i = -1 /\ writes = <<>> /\ psi_k = Undef)
    /\ (~fresh_simulation /\ pc = "restored") => ~RestoreFails

\* C9: every iteration applies kinetic, inverse transform, interaction, forward
\* transform, kinetic, in this order and once each; snapshot, checkpoint and
\* the advance of t follow, in this order; nothing stored is a field on which
\* only part of a step was applied.
C9_StepOrder ==
    LET core == <<"K", "IFFT", "INT", "FFT", "K">>
        tail == SubSeq(ops, 6, Len(ops))
    IN  /\ \A j \in 1..Len(ops) : j <= 5 => ops[j] = core[j]
        /\ tail \in {<<>>, <<"SNAP">>, <<"CKPT">>, <<"T">>, <<"SNAP", "CKPT">>,
                     <<"SNAP", "T">>, <<"CKPT", "T">>, <<"SNAP", "CKPT", "T">>}
        /\ psi_k.part # "bad" /\ psi.part # "bad"
        /\ \A j \in 1..Len(data.psi) :
               data.psi[j] = Fill
               \/ (data.psi[j].part = "" /\ data.psi[j].rep = "x")
        /\ "psi_k" \in backup.has =>
               (backup.psi_k.part = "" /\ backup.psi_k.rep = "k")

\* An iteration that took a snapshot and a checkpoint and advanced t.
C9_Witness == ops = <<"K", "IFFT", "INT", "FFT", "K", "SNAP", "CKPT", "T">>

\* C10: the slice at trajectory index j (here 1-based: j - 1) is the
\* wavefunction after exactly j*Nframe steps from the start of the simulation.
C10_SliceIndexIdentifiesStep ==
    Nframe >= 1 =>
        \A j \in 1..Len(data.psi) :
            data.psi[j] # Fill => data.psi[j] = AfterSteps(j * Nframe, "x")

====
